---- MODULE Spec2Model ----
(***************************************************************************)
(* socketcan2: Can (one raw CAN socket), Msg (the receive buffer handed to *)
(* recvmsg) and CanGroup (epoll fan-in over several Cans), src/lib.rs.     *)
(*                                                                         *)
(* The model holds the library objects' fields, the part of the kernel     *)
(* the library talks to (descriptor table, socket receive queues, the      *)
(* epoll interest list) and history variables that record what the         *)
(* library did (receives, handler invocations, close calls).               *)
(***************************************************************************)
EXTENDS Integers, Sequences, FiniteSets

(* ------------------------------ bounds --------------------------------- *)
\* descriptors the process acquires in one behaviour (sockets and epoll)
MaxHandles == 3
\* endpoints one CanGroup takes
MaxCans == 2
\* frames the bus delivers in one behaviour
MaxFrames == 2
\* control messages delivered with one frame
MaxChain == 3
\* frames the bus delivers to a group that only runs next
MaxBurst == 3

(* --------------------------- program constants ------------------------- *)
\* ifname.len() > 16 is rejected by Can::open
IFNAME_MAX == 16
\* payload bytes of libc::canfd_frame, the frame field of Msg
CANFD_MAX_DLEN == 64
\* payload bytes a classic CAN frame carries (read as 16 bytes by recvmsg)
CAN_MAX_DLEN == 8
\* libc::EPOLLIN
EPOLLIN == 1
\* width of the limbs a 64-bit millisecond count is held in
LIMB == 65536
\* half a limb: the sign bit of the upper limb of a 32-bit value
HALF == 32768
\* level and types of the control messages Msg::timestamp looks for
SOL_SOCKET == 1
SO_TIMESTAMP == 29
SO_TIMESTAMPING == 37
\* a socket-level type the scan has no case for, and a level that is not
\* SOL_SOCKET
SO_RXQ_OVFL == 40
SOL_CAN_RAW == 101
\* the factor tv_sec is multiplied by
NANOS_PER_SEC == 1000000000

(* ------------------------------ values --------------------------------- *)
\* user tags (the T of CanGroup<T>).  T is opaque to the library; the
\* caller tags the n-th endpoint it adds with n, so that a tag names one
\* endpoint
Tags == 1 .. MaxCans
\* descriptor values the kernel may hand out
AllFds == 0 .. (2 + MaxHandles)

\* Interface names, by what Can::open looks at: the byte length and the
\* index if_nametoindex resolves the name to (0: no such interface).
Names ==
  { [len |-> 5, ifindex |-> 1],
    [len |-> 5, ifindex |-> 0],
    [len |-> 16, ifindex |-> 0],
    [len |-> 17, ifindex |-> 0] }

\* A frame on the wire.  fd = TRUE: a CAN FD frame (72 bytes, 64 of payload),
\* fd = FALSE: a classic frame (16 bytes, 8 of payload).
Payload(n, base) == [i \in 1 .. n |-> base + i]
Pad(s, n) == [i \in 1 .. n |-> IF i <= Len(s) THEN s[i] ELSE 0]
\* ctl: the control messages recvmsg delivers with the frame.
ClassicFrame(id, s, c) ==
  [fd |-> FALSE, can_id |-> id, len |-> Len(s), flags |-> 0,
   data |-> Pad(s, CAN_MAX_DLEN), ctl |-> c]
FdFrame(id, fl, s, c) ==
  [fd |-> TRUE, can_id |-> id, len |-> Len(s), flags |-> fl,
   data |-> Pad(s, CANFD_MAX_DLEN), ctl |-> c]

\* control messages: a wall-clock stamp (a timeval), a stamp of the
\* timestamping facility (a timespec), and one that carries no stamp
TimevalMsg(sec, usec) ==
  [cmsg_level |-> SOL_SOCKET, cmsg_type |-> SO_TIMESTAMP,
   tv_sec |-> sec, tv_usec |-> usec]
TimespecMsg(sec, nsec) ==
  [cmsg_level |-> SOL_SOCKET, cmsg_type |-> SO_TIMESTAMPING,
   tv_sec |-> sec, tv_nsec |-> nsec]
OtherMsg(level, type) == [cmsg_level |-> level, cmsg_type |-> type]
\* The k-th frame the bus delivers; open has enabled SO_TIMESTAMP on the
\* socket, so the kernel stamps it with the wall-clock time of its arrival.  The library copies frames and never
\* looks into them, so every frame is given contents of its own: FD frames
\* of 12 bytes and classic frames of 8 alternate, a short one after a long
\* one.  The second is the frame of the round-trip test, 0x123 with
\* payload 1..8.
NthFrame(k) ==
  IF k % 2 = 1
  THEN FdFrame(1110 + k, 1, Payload(12, 16 * k), << TimevalMsg(1, k) >>)
  ELSE ClassicFrame(289 + k, Payload(8, k - 2), << TimevalMsg(1, k) >>)

\* A Duration in whole milliseconds, a signed 64-bit count
\* hi * 2^32 + l1 * 2^16 + l0 with 0 <= l1, l0 < 2^16.
Ms(hi, l1, l0) == [hi |-> hi, l1 |-> l1, l0 |-> l0]
Timeouts ==
  { Ms(0, 0, 5),                 \* 5
    Ms(0, HALF, 0),              \* 2^31
    Ms(1, 0, 0),                 \* 2^32
    Ms(-1, LIMB - 1, LIMB - 1),  \* -1
    Ms(-1, 0, 0) }               \* -2^32
IsNegative(d) == d.hi < 0

\* timeout.num_milliseconds() as i32: the low 32 bits, two's complement
AsI32(d) ==
  IF d.l1 >= HALF THEN (d.l1 - LIMB) * LIMB + d.l0 ELSE d.l1 * LIMB + d.l0

\* the 64-bit count equals the 32-bit value v
SameMs(d, v) ==
  \/ v >= 0 /\ d.hi = 0 /\ d.l1 < HALF /\ d.l1 * LIMB + d.l0 = v
  \/ v < 0 /\ d.hi = -1 /\ d.l1 >= HALF /\ (d.l1 - LIMB) * LIMB + d.l0 = v
\* the non-negative 64-bit count is at most the 32-bit value v
AtMostMs(d, v) ==
  d.hi = 0 /\ d.l1 < HALF /\ d.l1 * LIMB + d.l0 <= v

(* ------------------------------- state --------------------------------- *)
VARIABLES
  nextFd,     \* kernel: the next descriptor value it hands out
  handles,    \* history: every descriptor value the library acquired
  openFds,    \* kernel: descriptors acquired by the library and still open
  closeCnt,   \* history: close() calls made on each descriptor value
  destroyed,  \* history: descriptors whose owning Can / CanGroup was dropped
  badUse,     \* history: a closed descriptor was passed to a system call
  queue,      \* kernel: per socket, the frames received and not yet read
  arrived,    \* history: per socket, every frame the bus delivered to it
  nFrames,    \* history: frames the bus has delivered so far
  held,       \* the Cans the caller owns (by their fd field)
  openRes,    \* history: what the last Can::open call did
  grp,        \* the CanGroup: "none", "live" or "dropped"
  fd_epoll,   \* CanGroup.fd_epoll
  cans,       \* CanGroup.cans, a Vec of CanData
  events,     \* CanGroup.events, a Vec of epoll_event
  interest,   \* kernel: the epoll interest list, fd -> registered data
  msg,        \* CanGroup.msg, the shared frame buffer
  pc,         \* where CanGroup::next stands: "idle", "wait", "dispatch"
  timeout,    \* the timeout argument of next, while the wait lasts and
              \* after a wait that returned no events
  num_events, \* next's num_events
  idx,        \* next's loop variable i
  evsrc,      \* history: the socket each reported event came from
  trace,      \* history: receives and handler calls of the current cycle
  calls,      \* history: every handler invocation so far
  waitRes,    \* history: how the readiness wait of this cycle ended
  waited,     \* history: milliseconds the last timed-out wait lasted
  ret,        \* what the last call of next returned
  stamp,      \* what the last call of msg.timestamp() returned
  addRes,     \* what the last call of add returned
  addHist     \* history: whether the add before it had failed, and whether
              \* the kernel failed a valid request of the last add

vars ==
  << nextFd, handles, openFds, closeCnt, destroyed, badUse, queue, arrived, nFrames,
     held, openRes, grp, fd_epoll, cans, events, interest, msg, pc,
     timeout, num_events, idx, evsrc, trace, calls, waitRes, waited, ret,
     stamp, addRes, addHist >>

kernelVars ==
  << nextFd, handles, openFds, closeCnt, destroyed, badUse >>
busVars == << queue, arrived, nFrames >>
groupVars == << grp, fd_epoll, cans, events, interest >>
nextVars ==
  << pc, timeout, num_events, idx, evsrc, trace, waitRes, waited, stamp >>

(* ------------------------------ helpers -------------------------------- *)
\* The history variables describe the call made last: a call of another
\* operation starts from a clean record of next, of add and of open.
NoOpen == [called |-> FALSE, name |-> [len |-> 0, ifindex |-> 0],
           ok |-> FALSE, sock |-> -1, ts |-> FALSE, fdf |-> FALSE,
           bound |-> FALSE]
\* msg.timestamp() has not been called
NoStamp == [called |-> FALSE]
ForgetNext ==
  /\ pc' = "idle"
  /\ timeout' = Ms(0, 0, 0)
  /\ num_events' = 0
  /\ idx' = 0
  /\ evsrc' = << >>
  /\ trace' = << >>
  /\ waitRes' = "none"
  /\ waited' = 0
  /\ ret' = "none"
  /\ stamp' = NoStamp
NoAdd == [prevFailed |-> FALSE, injected |-> FALSE]
ForgetAdd == addRes' = "none" /\ addHist' = NoAdd
ForgetOpen == openRes' = NoOpen

Min(S) == CHOOSE x \in S : \A y \in S : x <= y

\* the orders in which the kernel may report the k events taken from S
Orders(S, k) ==
  { o \in [1 .. k -> S] : \A i, j \in 1 .. k : i # j => o[i] # o[j] }

\* the kernel hands out the lowest free descriptor; 0, 1, 2 are the
\* standard streams when the process has them, closed values are not
\* handed out again, so that one value names one acquisition
NextAfter(fd) == IF fd < 3 THEN 3 ELSE fd + 1

(* ------------------------------- Msg ----------------------------------- *)
\* the frame field is not initialised by Msg::new: it holds whatever the
\* allocation held
UninitFrames ==
  { [can_id |-> 0, len |-> 0, flags |-> 0,
     data |-> [i \in 1 .. CANFD_MAX_DLEN |-> 0],
     ctl |-> << OtherMsg(0, 0) >>],
    [can_id |-> 2047, len |-> 3, flags |-> 255,
     data |-> [i \in 1 .. CANFD_MAX_DLEN |-> 255],
     ctl |-> << OtherMsg(-1, -1) >>] }

NoFrame == CHOOSE m \in UninitFrames : m.len = 0

\* faulty variant: reset sets iov_len to the size of a classic frame: recvmsg
\* copies at most 8 payload bytes
StoreClassicOnly(m, f) ==
  [can_id |-> f.can_id, len |-> f.len, flags |-> f.flags,
   data |-> [i \in 1 .. CANFD_MAX_DLEN |->
               IF i <= Len(f.data) /\ i <= CAN_MAX_DLEN
               THEN f.data[i] ELSE m.data[i]],
   ctl |-> f.ctl]

\* recvmsg copies the bytes of the frame over the start of msg.frame:
\* a classic frame is 16 bytes, the rest of the buffer keeps its contents.
\* The control messages are written to ctrlmsg and msg_controllen is set
\* to their length.
Store(m, f) ==
  [can_id |-> f.can_id, len |-> f.len, flags |-> f.flags,
   data |-> [i \in 1 .. CANFD_MAX_DLEN |->
               IF i <= Len(f.data) THEN f.data[i] ELSE m.data[i]],
   ctl |-> f.ctl]

\* what on_recv reads: can_id(), len() and msg[i] for i < len()
Observed(m) ==
  [can_id |-> m.can_id, len |-> m.len, data |-> SubSeq(m.data, 1, m.len)]
\* the same three of a frame as it was sent
Sent(f) ==
  [can_id |-> f.can_id, len |-> f.len, data |-> SubSeq(f.data, 1, f.len)]

(* -------------------------- Msg::timestamp ----------------------------- *)
\* Duration::milliseconds(m), as chrono holds a Duration: whole seconds and
\* the nanoseconds below one second (m >= 0 here)
milliseconds(m) == [secs |-> m \div 1000, nanos |-> (m % 1000) * 1000000]

Unsupported == [ok |-> FALSE]

\* the loop of timestamp, standing at the i-th control message of chain c
\* (CMSG_FIRSTHDR gives the first, CMSG_NXTHDR the next, null at the end)
\* the two arms of the match that return: the Duration made of the
\* timeval, or of the timespec, of control message cm
StampOf(cm) ==
  IF cm.cmsg_type = SO_TIMESTAMP
  THEN milliseconds(cm.tv_sec * NANOS_PER_SEC + cm.tv_usec * 1000)
  ELSE milliseconds(cm.tv_sec * NANOS_PER_SEC + cm.tv_nsec)

\* faulty variant: the loop has no test of cmsg_level
RECURSIVE ScanAnyLevel(_, _)
ScanAnyLevel(c, i) ==
  IF i > Len(c) THEN Unsupported
  ELSE IF c[i].cmsg_type \in {SO_TIMESTAMP, SO_TIMESTAMPING}
  THEN [ok |-> TRUE, d |-> StampOf(c[i])]
  ELSE ScanAnyLevel(c, i + 1)

RECURSIVE Scan(_, _)
Scan(c, i) ==
  IF i > Len(c) \/ c[i].cmsg_level # SOL_SOCKET THEN Unsupported
  ELSE IF c[i].cmsg_type \in {SO_TIMESTAMP, SO_TIMESTAMPING}
  THEN [ok |-> TRUE, d |-> StampOf(c[i])]
  ELSE Scan(c, i + 1)

timestamp(m) == Scan(m.ctl, 1)

(* ------------------------------ Drop ----------------------------------- *)

\* impl Drop for Can / CanGroup: close is called unless the field is 0
DropCloses(fd) == fd # 0

ClosedBy(S) == { f \in S : DropCloses(f) }
OpenAfterDrop(S) == openFds \ ClosedBy(S)
CloseCntAfterDrop(S) ==
  [f \in AllFds |-> IF f \in ClosedBy(S) THEN closeCnt[f] + 1 ELSE closeCnt[f]]
DestroyedAfterDrop(S) == destroyed \cup (S \cap AllFds)
\* the kernel frees a socket, and the frames queued on it, when its
\* descriptor is closed; the history of the socket ends with it
QueueAfterDrop(q, S) ==
  [f \in AllFds |-> IF f \in ClosedBy(S) THEN << >> ELSE q[f]]
\* close() of a descriptor that is already closed
StaleClose(S) == \E f \in ClosedBy(S) : f \in handles \ openFds

(* ------------------------------- Init ---------------------------------- *)
NullKey == [dangling |-> TRUE, idx |-> 0]
UninitEvent == [events |-> 0, u64 |-> NullKey]
NoInterest == [f \in {} |-> UninitEvent]

\* nothing has been opened, grouped or received
Fresh ==
  /\ nextFd \in {0, 3}
  /\ handles = {}
  /\ openFds = {}
  /\ closeCnt = [f \in AllFds |-> 0]
  /\ destroyed = {}
  /\ badUse = FALSE
  /\ queue = [f \in AllFds |-> << >>]
  /\ arrived = [f \in AllFds |-> << >>]
  /\ nFrames = 0
  /\ held = {}
  /\ openRes = NoOpen
  /\ grp = "none"
  /\ fd_epoll = -1
  /\ cans = << >>
  /\ events = << >>
  /\ interest = NoInterest
  /\ pc = "idle"
  /\ timeout = Ms(0, 0, 0)
  /\ num_events = 0
  /\ idx = 0
  /\ evsrc = << >>
  /\ trace = << >>
  /\ calls = << >>
  /\ waitRes = "none"
  /\ waited = 0
  /\ ret = "none"
  /\ stamp = NoStamp
  /\ addRes = "none"
  /\ addHist = NoAdd

Init ==
  /\ Fresh
  /\ msg = NoFrame

(* ----------------------------- Can::open ------------------------------- *)
\* the length check of open, before any system call is made
NameTooLong(name) == name.len > IFNAME_MAX

\* open returns Ok(can) on these outcomes of its system calls.  The result
\* of socket() is not tested: a failed socket() leaves fd = -1, on which
\* the first setsockopt fails.  The return value of the second setsockopt
\* (CAN_RAW_FD_FRAMES) is not looked at.
OpenOk(name, sockOk, tsOk, fdfOk, bindOk) ==
  name.ifindex # 0 /\ sockOk /\ tsOk /\ bindOk

\* a Can { fd } exists from the point where if_nametoindex has succeeded;
\* on the error returns before that the descriptor is a bare integer
CanBuilt(name) == name.ifindex # 0

OpenTooLong(name) ==
  /\ NameTooLong(name)
  /\ openRes' = [NoOpen EXCEPT !.called = TRUE, !.name = name]
  /\ UNCHANGED << kernelVars, busVars, held >>

OpenCalls(name, sockOk, tsOk, fdfOk, bindOk) ==
  LET fd == IF sockOk THEN nextFd ELSE -1
      got == IF sockOk THEN {fd} ELSE {}
      ok == OpenOk(name, sockOk, tsOk, fdfOk, bindOk)
      \* the Can is dropped on the error returns that follow its creation
      dropped == IF CanBuilt(name) /\ ~ok THEN {fd} ELSE {}
      ts == CanBuilt(name) /\ sockOk /\ tsOk
      fdf == ts /\ fdfOk
      bound == ts /\ bindOk
  IN  /\ ~NameTooLong(name)
      /\ nextFd' = IF sockOk THEN NextAfter(nextFd) ELSE nextFd
      /\ handles' = handles \cup got
      /\ openFds' = (openFds \cup got) \ ClosedBy(dropped)
      /\ closeCnt' = CloseCntAfterDrop(dropped)
      /\ destroyed' = DestroyedAfterDrop(dropped)
      /\ badUse' = badUse
      /\ held' = IF ok THEN held \cup {fd} ELSE held
      /\ openRes' = [called |-> TRUE, name |-> name, ok |-> ok, sock |-> fd,
                     ts |-> ts, fdf |-> fdf, bound |-> bound]
      /\ UNCHANGED busVars

Open ==
  /\ pc = "idle"
  /\ Cardinality(handles) < MaxHandles
  /\ \E name \in Names :
       \/ OpenTooLong(name)
       \/ \E sockOk, tsOk, fdfOk, bindOk \in BOOLEAN :
            \* outcomes of calls that are not made are not enumerated
            /\ (~(CanBuilt(name) /\ sockOk)) => (tsOk /\ fdfOk /\ bindOk)
            /\ (~tsOk) => (fdfOk /\ bindOk)
            /\ OpenCalls(name, sockOk, tsOk, fdfOk, bindOk)
  /\ ForgetNext
  /\ ForgetAdd
  /\ UNCHANGED << groupVars, msg, calls >>

\* the caller drops a Can it owns
DropCan ==
  /\ pc = "idle"
  /\ \E fd \in held :
       /\ held' = held \ {fd}
       /\ openFds' = OpenAfterDrop({fd})
       /\ closeCnt' = CloseCntAfterDrop({fd})
       /\ destroyed' = DestroyedAfterDrop({fd})
       /\ badUse' = (badUse \/ StaleClose({fd}))
       /\ queue' = QueueAfterDrop(queue, {fd})
       /\ arrived' = QueueAfterDrop(arrived, {fd})
       /\ UNCHANGED nFrames
  /\ ForgetNext
  /\ ForgetAdd
  /\ ForgetOpen
  /\ UNCHANGED << nextFd, handles, groupVars, msg, calls >>

(* ---------------------------- CanGroup::new ---------------------------- *)
NewGroup ==
  /\ pc = "idle"
  /\ grp = "none"
  /\ Cardinality(handles) < MaxHandles
  /\ \E epOk \in BOOLEAN :
       /\ fd_epoll' = IF epOk THEN nextFd ELSE -1
       /\ nextFd' = IF epOk THEN NextAfter(nextFd) ELSE nextFd
       /\ handles' = IF epOk THEN handles \cup {nextFd} ELSE handles
       /\ openFds' = IF epOk THEN openFds \cup {nextFd} ELSE openFds
  /\ grp' = "live"
  /\ cans' = << >>
  /\ events' = << >>
  /\ msg' \in UninitFrames
  /\ ForgetNext
  /\ ForgetAdd
  /\ ForgetOpen
  /\ UNCHANGED << closeCnt, destroyed, badUse, busVars, held,
                  interest, calls >>

(* ---------------------------- CanGroup::add ---------------------------- *)
\* A correlation key is the address of an element of cans: the index of
\* the element, and whether the Vec has since moved to another allocation
\* (a push that grows it may move it), which leaves the address dangling.
\* The key add registers for the i-th endpoint of a list of n is the
\* address of cans.last().
RegKey(i, n) == [dangling |-> FALSE, idx |-> n]

\* the keys held by the kernel and in events after the Vec has moved
Moved(e) == [e EXCEPT !.u64.dangling = TRUE]

Remove(int, S) == [f \in (DOMAIN int) \ S |-> int[f]]
FdsOf(cs, I) == { cs[i].can.fd : i \in I }

\* epoll_ctl(EPOLL_CTL_DEL) on the i-th endpoint fails: injected by the
\* kernel (inj), a bad epoll descriptor, or a socket that is not registered
DelFails(i, inj) ==
  \/ i = inj
  \/ fd_epoll \notin openFds
  \/ cans[i].can.fd \notin DOMAIN interest
\* the index at which the deregistration loop returns, 0 if it completes
DelStop(inj) ==
  LET F == { i \in 1 .. Len(events) : DelFails(i, inj) }
  IN  IF F = {} THEN 0 ELSE Min(F)

\* epoll_ctl(EPOLL_CTL_ADD) on the i-th endpoint of cs fails
AddFails(cs, int, i, inj) ==
  \/ i = inj
  \/ fd_epoll \notin openFds
  \/ cs[i].can.fd \notin openFds
  \/ cs[i].can.fd \in DOMAIN int
\* faulty variant: only the endpoint just pushed is registered
RegLoopNewOnly(n) == {n}
\* the indices the registration loop visits: 0..self.events.len()
RegLoop(n) == 1 .. n
AddStop(cs, int, inj) ==
  LET F == { i \in RegLoop(Len(cs)) : AddFails(cs, int, i, inj) }
  IN  IF F = {} THEN 0 ELSE Min(F)

\* add returns from its first loop: the Can passed in is dropped
AddDelFailed(fd, d, inj) ==
  /\ interest' = Remove(interest, FdsOf(cans, 1 .. (d - 1)))
  /\ held' = held \ {fd}
  /\ openFds' = OpenAfterDrop({fd})
  /\ closeCnt' = CloseCntAfterDrop({fd})
  /\ destroyed' = DestroyedAfterDrop({fd})
  /\ badUse' = (badUse \/ StaleClose({fd}))
  /\ queue' = QueueAfterDrop(queue, {fd})
  /\ arrived' = QueueAfterDrop(arrived, {fd})
  /\ UNCHANGED nFrames
  /\ addRes' = "err"
  /\ addHist' = [prevFailed |-> addRes = "err", injected |-> d = inj]
  /\ UNCHANGED << cans, events >>

\* add gets past its first loop: push, then the registration loop
AddPushed(fd, user_data, moved, inj) ==
  LET n == Len(cans) + 1
      cs == Append(cans, [can |-> [fd |-> fd], user_data |-> user_data])
      int0 == Remove(interest, FdsOf(cans, 1 .. Len(cans)))
      int1 == [f \in DOMAIN int0 |->
                 IF moved THEN Moved(int0[f]) ELSE int0[f]]
      a == AddStop(cs, int1, inj)
      \* entries written by the loop: all of them, or up to the failing one
      written == { i \in RegLoop(n) : a = 0 \/ i <= a }
      registered == { i \in RegLoop(n) : a = 0 \/ i < a }
      old == Append([i \in 1 .. Len(events) |->
                       IF moved THEN Moved(events[i]) ELSE events[i]],
                    UninitEvent)
  IN  /\ cans' = cs
      /\ events' =
           [i \in 1 .. n |->
              IF i \in written
              THEN [events |-> EPOLLIN, u64 |-> RegKey(i, n)]
              ELSE old[i]]
      /\ interest' =
           [f \in (DOMAIN int1) \cup FdsOf(cs, registered) |->
              IF f \in DOMAIN int1 THEN int1[f]
              ELSE LET i == CHOOSE j \in registered : cs[j].can.fd = f
                   IN  [events |-> EPOLLIN, u64 |-> RegKey(i, n)]]
      /\ held' = held \ {fd}
      /\ addRes' = IF a = 0 THEN "ok" ELSE "err"
      /\ addHist' = [prevFailed |-> addRes = "err",
                     injected |-> a # 0 /\ a = inj]
      /\ UNCHANGED << openFds, closeCnt, destroyed, badUse, busVars >>

Add ==
  /\ pc = "idle"
  /\ grp = "live"
  /\ Len(cans) < MaxCans
  /\ \E fd \in held, user_data \in {Len(cans) + 1} :
       \E delInj \in 0 .. Len(events) :
         LET d == DelStop(delInj)
         IN  IF d # 0
             THEN AddDelFailed(fd, d, delInj)
             ELSE \E moved \in BOOLEAN, addInj \in 0 .. (Len(cans) + 1) :
                    \* the first push always allocates
                    /\ (cans = << >>) => moved
                    /\ AddPushed(fd, user_data, moved, addInj)
  /\ ForgetNext
  /\ ForgetOpen
  /\ UNCHANGED << nextFd, handles, grp, fd_epoll, msg, calls >>

(* ------------------------- impl Drop for CanGroup ---------------------- *)
\* drop closes fd_epoll, then the fields are dropped: every Can of cans
DropGroup ==
  /\ pc = "idle"
  /\ grp = "live"
  /\ LET S == {fd_epoll} \cup FdsOf(cans, 1 .. Len(cans))
     IN  /\ openFds' = OpenAfterDrop(S)
         /\ closeCnt' = CloseCntAfterDrop(S)
         /\ destroyed' = DestroyedAfterDrop(S)
         /\ badUse' = (badUse \/ StaleClose(S))
         /\ queue' = QueueAfterDrop(queue, S)
         /\ arrived' = QueueAfterDrop(arrived, S)
  /\ UNCHANGED nFrames
  /\ grp' = "dropped"
  /\ interest' = NoInterest
  \* the object is gone: its fields, and the history of its dispatches
  /\ fd_epoll' = -1
  /\ cans' = << >>
  /\ events' = << >>
  /\ msg' = NoFrame
  /\ calls' = << >>
  /\ ForgetNext
  /\ ForgetAdd
  /\ ForgetOpen
  /\ UNCHANGED << nextFd, handles, held >>

(* ------------------------------ the bus -------------------------------- *)
\* the sockets of the group's endpoints
Bound == FdsOf(cans, 1 .. Len(cans)) \cap openFds

\* a frame reaches the socket of an endpoint of the group, the bus
\* delivering at most n frames
ArriveUpTo(n) ==
  /\ nFrames < n
  /\ nFrames' = nFrames + 1
  /\ \E fd \in Bound, f \in {NthFrame(nFrames + 1)} :
       /\ queue' = [queue EXCEPT ![fd] = Append(@, f)]
       /\ arrived' = [arrived EXCEPT ![fd] = Append(@, f)]
  /\ UNCHANGED << kernelVars, held, openRes, groupVars, msg, nextVars, calls,
                  ret, addRes,
                  addHist >>

Arrive == ArriveUpTo(MaxFrames)

(* ---------------------------- CanGroup::next --------------------------- *)
\* the timeout argument handed to epoll_wait
OsTimeout(d) == AsI32(d)

\* faulty variant: no_timeout starts out true
NoTimeoutInitTrue(n) == "true"

\* the value next returns after its loop: no_timeout
NoTimeout(n) == IF n > 0 THEN "true" ELSE "false"

\* the CanData a reported event resolves to.  The key is an address: it
\* names cans[idx] while cans lives in the allocation the key was taken
\* in, and otherwise memory the Vec has given back, which may hold anything
Deref(key) ==
  IF ~key.dangling /\ key.idx \in 1 .. Len(cans)
  THEN { cans[key.idx] }
  ELSE { [can |-> [fd |-> f], user_data |-> t] : f \in AllFds, t \in Tags }

\* sockets epoll_wait reports: registered, with a frame queued
Ready == { f \in DOMAIN interest : f \in openFds /\ queue[f] # << >> }
\* epoll_wait rejects the call: bad descriptor, or maxevents <= 0
WaitInvalid == fd_epoll \notin openFds \/ Len(events) <= 0

CallNext ==
  /\ pc = "idle"
  /\ grp = "live"
  /\ \E t \in Timeouts : timeout' = t
  /\ pc' = "wait"
  /\ num_events' = 0
  /\ idx' = 0
  /\ evsrc' = << >>
  /\ trace' = << >>
  /\ waitRes' = "none"
  /\ waited' = 0
  /\ ret' = "none"
  /\ stamp' = NoStamp
  /\ ForgetAdd
  /\ ForgetOpen
  /\ UNCHANGED << kernelVars, busVars, held, groupVars, msg, calls >>

\* epoll_wait returns -1: rejected, or interrupted while it blocks
WaitFail ==
  /\ pc = "wait"
  /\ waitRes' = IF WaitInvalid THEN "rejected" ELSE "interrupted"
  /\ pc' = "idle"
  /\ ret' = "err"
  /\ UNCHANGED << kernelVars, busVars, held, openRes, groupVars, msg, timeout,
                  num_events, idx, evsrc, trace, calls, waited, stamp, addRes,
                  addHist >>

\* epoll_wait returns the ready sockets' events, at most maxevents of them,
\* written over the head of the events array
WaitReady ==
  /\ pc = "wait"
  /\ ~WaitInvalid
  /\ Ready # {}
  /\ LET k == IF Cardinality(Ready) < Len(events)
              THEN Cardinality(Ready) ELSE Len(events)
     IN  \E o \in Orders(Ready, k) :
           /\ num_events' = k
           /\ evsrc' = o
           /\ events' = [i \in 1 .. Len(events) |->
                           IF i <= k THEN interest[o[i]] ELSE events[i]]
  /\ waitRes' = "events"
  /\ idx' = 0
  /\ pc' = "dispatch"
  /\ timeout' = Ms(0, 0, 0)
  /\ UNCHANGED << kernelVars, busVars, held, openRes, grp, fd_epoll, cans,
                  interest, msg, trace, calls, waited, ret, stamp, addRes,
                  addHist >>

\* epoll_wait returns 0 once the time bound it was given has passed
WaitTimeout ==
  /\ pc = "wait"
  /\ ~WaitInvalid
  /\ Ready = {}
  /\ OsTimeout(timeout) >= 0
  /\ waited' = OsTimeout(timeout)
  /\ waitRes' = "timeout"
  /\ pc' = "idle"
  /\ ret' = NoTimeout(0)
  /\ UNCHANGED << kernelVars, busVars, held, openRes, groupVars, msg, timeout,
                  num_events, idx, evsrc, trace, calls, stamp, addRes,
                  addHist >>

\* faulty variant: on_recv is called before the frame is received
RoundCallFirst(ev, fd) ==
  << [op |-> "call", ev |-> ev, fd |-> fd],
     [op |-> "recv", ev |-> ev, fd |-> fd] >>
\* what one round of the loop does for event ev, resolved to socket fd:
\* recv(...)?, then on_recv(...)
Round(ev, fd) ==
  << [op |-> "recv", ev |-> ev, fd |-> fd],
     [op |-> "call", ev |-> ev, fd |-> fd] >>

\* one round of the loop: recv on the resolved endpoint returns a frame,
\* then on_recv is called; it reads the frame and asks for its timestamp.  recvmsg on a socket with an empty queue blocks.
RecvOk ==
  /\ pc = "dispatch"
  /\ idx < num_events
  /\ \E can_data \in Deref(events[idx + 1].u64) :
       LET fd == can_data.can.fd
           m == Store(msg, Head(queue[fd]))
       IN  /\ fd \in openFds
           /\ queue[fd] # << >>
           /\ msg' = m
           /\ queue' = [queue EXCEPT ![fd] = Tail(@)]
           /\ trace' = trace \o Round(idx + 1, fd)
           /\ calls' = Append(calls, [src |-> evsrc[idx + 1], fd |-> fd,
                                      tag |-> can_data.user_data,
                                      frame |-> Observed(m),
                                      wire |-> Head(queue[fd])])
           /\ stamp' = [called |-> TRUE, res |-> timestamp(m)]
  /\ idx' = idx + 1
  /\ UNCHANGED << kernelVars, arrived, nFrames, held, openRes, groupVars, pc,
                  timeout, num_events, evsrc, waitRes, waited, ret, addRes,
                  addHist >>

\* faulty variant: the error of recv is dropped and the loop goes on
RecvFailSkipped ==
  /\ pc = "dispatch"
  /\ idx < num_events
  /\ \E can_data \in Deref(events[idx + 1].u64) :
       /\ trace' = Append(trace, [op |-> "recvfail", ev |-> idx + 1,
                                  fd |-> can_data.can.fd])
       /\ badUse' = (badUse \/ can_data.can.fd \in handles \ openFds)
  /\ idx' = idx + 1
  /\ UNCHANGED << nextFd, handles, openFds, closeCnt, destroyed, busVars,
                  held, openRes, groupVars, msg, pc, timeout, num_events,
                  evsrc, calls, waitRes, waited, ret, stamp, addRes,
                  addHist >>

\* recvmsg returns -1: `?` returns the error from next
RecvFail ==
  /\ pc = "dispatch"
  /\ idx < num_events
  /\ \E can_data \in Deref(events[idx + 1].u64) :
       /\ trace' = Append(trace, [op |-> "recvfail", ev |-> idx + 1,
                                  fd |-> can_data.can.fd])
       /\ badUse' = (badUse \/ can_data.can.fd \in handles \ openFds)
  /\ pc' = "idle"
  /\ ret' = "err"
  /\ UNCHANGED << nextFd, handles, openFds, closeCnt, destroyed,
                  busVars, held, openRes, groupVars, msg, timeout, num_events,
                  idx, evsrc, calls, waitRes, waited, stamp, addRes,
                  addHist >>

\* the loop is over: Ok(no_timeout)
NextDone ==
  /\ pc = "dispatch"
  /\ idx = num_events
  /\ pc' = "idle"
  /\ ret' = NoTimeout(num_events)
  /\ UNCHANGED << kernelVars, busVars, held, openRes, groupVars, msg, timeout,
                  num_events, idx, evsrc, trace, calls, waitRes, waited,
                  stamp, addRes, addHist >>

(* --------------------------- specification ----------------------------- *)
Next ==
  \/ Open
  \/ DropCan
  \/ NewGroup
  \/ Add
  \/ DropGroup
  \/ Arrive
  \/ CallNext
  \/ WaitFail
  \/ WaitReady
  \/ WaitTimeout
  \/ RecvOk
  \/ RecvFail
  \/ NextDone

Spec == Init /\ [][Next]_vars

(* ------------------ next on a group of two endpoints ------------------- *)
\* The caller has opened two interfaces, made a group and added both
\* endpoints, every call succeeding; from then on it only calls next, while
\* the bus delivers up to MaxBurst frames.
TwoAdded ==
  /\ nextFd = 6
  /\ handles = {3, 4, 5}
  /\ openFds = {3, 4, 5}
  /\ closeCnt = [f \in AllFds |-> 0]
  /\ destroyed = {}
  /\ badUse = FALSE
  /\ queue = [f \in AllFds |-> << >>]
  /\ arrived = [f \in AllFds |-> << >>]
  /\ nFrames = 0
  /\ held = {}
  /\ openRes = NoOpen
  /\ grp = "live"
  /\ fd_epoll = 5
  /\ cans = << [can |-> [fd |-> 3], user_data |-> 1],
               [can |-> [fd |-> 4], user_data |-> 2] >>
  /\ events = [i \in 1 .. 2 |-> [events |-> EPOLLIN, u64 |-> RegKey(i, 2)]]
  /\ interest = [f \in {3, 4} |-> [events |-> EPOLLIN, u64 |-> RegKey(f - 2, 2)]]
  /\ msg \in UninitFrames
  /\ pc = "idle"
  /\ timeout = Ms(0, 0, 0)
  /\ num_events = 0
  /\ idx = 0
  /\ evsrc = << >>
  /\ trace = << >>
  /\ calls = << >>
  /\ waitRes = "none"
  /\ waited = 0
  /\ ret = "none"
  /\ stamp = NoStamp
  /\ addRes = "ok"
  /\ addHist = NoAdd

ArriveBurst == ArriveUpTo(MaxBurst)

DispatchNext ==
  \/ ArriveBurst
  \/ CallNext
  \/ WaitFail
  \/ WaitReady
  \/ WaitTimeout
  \/ RecvOk
  \/ RecvFail
  \/ NextDone

DispatchSpec == TwoAdded /\ [][DispatchNext]_vars

(* ------------------- Msg::timestamp on its own -------------------------- *)
\* The caller holds a Msg that a receive has filled and asks for its
\* timestamp.  The chain of control messages is whatever the kernel was
\* configured to deliver: up to MaxChain messages, stamps with seconds
\* 0 and 1 and the lowest and highest sub-second values, a socket-level
\* message without a stamp, and messages of another level.
Timevals == { TimevalMsg(s, u) : s \in {0, 1}, u \in {0, 1, 999999} }
Timespecs == { TimespecMsg(s, n) : s \in {0, 1}, n \in {0, 1, 999999999} }
Cmsgs ==
  Timevals \cup Timespecs
    \cup { OtherMsg(SOL_SOCKET, SO_RXQ_OVFL),
           [TimevalMsg(1, 5) EXCEPT !.cmsg_level = SOL_CAN_RAW] }
Chains == UNION { [1 .. k -> Cmsgs] : k \in 0 .. MaxChain }

TsInit ==
  /\ Fresh
  /\ \E c \in Chains : msg = [NoFrame EXCEPT !.ctl = c]

TsCall ==
  /\ ~stamp.called
  /\ stamp' = [called |-> TRUE, res |-> timestamp(msg)]
  /\ UNCHANGED << kernelVars, busVars, held, openRes, groupVars, msg, pc,
                  timeout, num_events, idx, evsrc, trace, calls, waitRes,
                  waited, ret, addRes,
                  addHist >>

TsNext == TsCall

TsSpec == TsInit /\ [][TsNext]_vars

(* ------------------------------ claims --------------------------------- *)
\* the endpoint of the group that owns socket fd
EndpointOf(fd) ==
  CHOOSE c \in { cans[i] : i \in 1 .. Len(cans) } : c.can.fd = fd
GroupFds == FdsOf(cans, 1 .. Len(cans))
Returned == pc = "idle" /\ ret # "none"
\* the entries of the cycle's trace for its first n events, all successful
GoodPrefix(n) ==
  \A i \in 1 .. n :
    /\ trace[2 * i - 1].op = "recv" /\ trace[2 * i - 1].ev = i
    /\ trace[2 * i].op = "call" /\ trace[2 * i].ev = i

\* C1: every handler invocation of next is for the endpoint whose
\* readiness event triggered it: the frame was received on that endpoint's
\* socket and the handler got that endpoint's own tag.
C1_HandlerForReadyEndpoint ==
  \A i \in 1 .. Len(calls) :
    /\ calls[i].fd = calls[i].src
    /\ calls[i].tag = EndpointOf(calls[i].src).user_data

\* C2: next suspends only in the readiness wait: it never sits in a receive
\* on an endpoint that has no frame pending (and so always returns).
C2_NeverBlocksInReceive ==
  (pc = "dispatch" /\ idx < num_events) =>
    \A can_data \in Deref(events[idx + 1].u64) :
      queue[can_data.can.fd] # << >>

\* C3: with one endpoint in the group, the frames handed to the handler so
\* far, followed by the frames still queued on the socket, are the frames
\* that arrived on it: in arrival order, each once, with the identifier,
\* length and payload that were sent.
C3_RoundTrip ==
  (grp = "live" /\ Len(cans) = 1) =>
    LET fd == cans[1].can.fd
    IN  [i \in 1 .. Len(calls) |-> calls[i].frame]
          \o [i \in 1 .. Len(queue[fd]) |-> Sent(queue[fd][i])]
        = [i \in 1 .. Len(arrived[fd]) |-> Sent(arrived[fd][i])]
\* two frames of different kinds were delivered to the handler, in order
C3_Witness ==
  /\ grp = "live"
  /\ Len(cans) = 1
  /\ Len(calls) = 2
  /\ calls[1].frame = Sent(NthFrame(1))
  /\ calls[2].frame = Sent(NthFrame(2))

\* C4: next returns Ok(true) exactly when the wait reported at least one
\* event and every receive of the cycle succeeded, Ok(false) exactly when
\* the wait ended with zero events, and then nothing was received and the
\* handler was not invoked.
C4_ReturnValue ==
  Returned =>
    /\ ret = "true" <=>
         /\ waitRes = "events"
         /\ num_events >= 1
         /\ Len(trace) = 2 * num_events
         /\ GoodPrefix(num_events)
    /\ ret = "false" <=> (waitRes = "timeout" /\ num_events = 0)
    /\ ret = "false" => trace = << >>
\* a cycle that received a frame and returned Ok(true)
C4_Witness ==
  /\ Returned
  /\ ret = "true"
  /\ Len(trace) = 2
  /\ trace[1].op = "recv"

\* C5: a receive that fails for the j-th event ends the cycle with the
\* error: nothing follows it, the handler ran for the events before j and
\* for no other; a wait that fails ends the call with no receive at all.
C5_FailFast ==
  /\ \A i \in 1 .. Len(trace) :
       trace[i].op = "recvfail" =>
         /\ i = Len(trace)
         /\ Returned
         /\ ret = "err"
         /\ i = 2 * (trace[i].ev - 1) + 1
         /\ GoodPrefix(trace[i].ev - 1)
  /\ (Returned /\ ret = "err") =>
       \/ waitRes \in {"rejected", "interrupted"} /\ trace = << >>
       \/ waitRes = "events" /\ trace # << >>
            /\ trace[Len(trace)].op = "recvfail"
\* the receive of the second event failed after the first was dispatched
C5_Witness ==
  /\ Returned
  /\ ret = "err"
  /\ Len(trace) = 3
  /\ trace[3].op = "recvfail"
  /\ trace[3].ev = 2

\* C6: next with a finite non-negative timeout on a group none of whose
\* endpoints is readable (an empty group included) returns Ok(false), with
\* no handler invocation and not before the timeout has passed.
C6_TimeoutReturnsFalse ==
  ( /\ Returned
    /\ fd_epoll \in openFds
    /\ waitRes \in {"timeout", "rejected"}
    /\ ~IsNegative(timeout)
    /\ \A fd \in GroupFds : queue[fd] = << >> )
  => (ret = "false" /\ trace = << >> /\ AtMostMs(timeout, waited))

\* C7: with a negative timeout next never returns Ok(false).
C7_NegativeNeverTimesOut ==
  (Returned /\ IsNegative(timeout)) => ret # "false"

\* C8: a non-negative timeout of m milliseconds reaches the readiness wait
\* as m milliseconds.
C8_TimeoutPreserved ==
  (pc = "wait" /\ ~IsNegative(timeout)) =>
    SameMs(timeout, OsTimeout(timeout))

\* C9: every descriptor the library acquired for a Can or a CanGroup is
\* closed exactly once when its owner is destroyed: never twice, never
\* left open, never used after it was closed.
C9_ClosedExactlyOnce ==
  /\ ~badUse
  /\ \A h \in handles :
       /\ closeCnt[h] <= 1
       /\ h \in destroyed => (h \notin openFds /\ closeCnt[h] = 1)

\* C10: an open that fails because the name is too long or does not
\* resolve leaves no socket of its own open.
C10_FailedOpenNoSocket ==
  ( /\ openRes.called
    /\ ~openRes.ok
    /\ (NameTooLong(openRes.name) \/ openRes.name.ifindex = 0) )
  => openRes.sock \notin openFds

\* C11: open returns Ok(can) only if the socket was created, both socket
\* options were set and the bind succeeded.
C11_OkOnlyIfAllStepsDone ==
  (openRes.called /\ openRes.ok) =>
    /\ openRes.sock \in openFds
    /\ openRes.ts
    /\ openRes.fdf
    /\ openRes.bound

\* byte i of the buffer is left over from a frame received earlier: it was
\* a payload byte of that frame and the last receive did not write it
StaleAt(i) ==
  /\ i > Len(calls[Len(calls)].wire.data)
  /\ \E k \in 1 .. Len(calls) - 1 :
       /\ i <= calls[k].wire.len
       /\ msg.data[i] = calls[k].wire.data[i]

\* C12: after any sequence of receives into one Msg, can_id, len, flags and
\* msg[i] for every index Index accepts (0..63) return nothing of a frame
\* received before the most recent successful receive.
C12_NoStaleData ==
  calls # << >> =>
    LET last == calls[Len(calls)].wire
    IN  /\ msg.can_id = last.can_id
        /\ msg.len = last.len
        /\ msg.flags = last.flags
        /\ \A i \in 1 .. CANFD_MAX_DLEN : ~StaleAt(i)

\* message i of chain c is a stamp that no message of another level precedes
Qualifies(c, i) ==
  /\ c[i].cmsg_level = SOL_SOCKET
  /\ c[i].cmsg_type \in {SO_TIMESTAMP, SO_TIMESTAMPING}
  /\ \A j \in 1 .. i - 1 : c[j].cmsg_level = SOL_SOCKET
\* the first of them, if there is one
Selected(c) ==
  { i \in 1 .. Len(c) : Qualifies(c, i) /\ \A j \in 1 .. i - 1 : ~Qualifies(c, j) }

\* C13: for a chain that starts with a stamp, timestamp returns the Duration
\* of tv_sec * 10^9 + tv_usec * 10^3 nanoseconds (wall-clock stamp) or of
\* tv_sec * 10^9 + tv_nsec nanoseconds (timestamping facility).
C13_TimestampValue ==
  (stamp.called /\ 1 \in Selected(msg.ctl)) =>
    LET cm == msg.ctl[1]
        ns == IF cm.cmsg_type = SO_TIMESTAMP
              THEN cm.tv_sec * NANOS_PER_SEC + cm.tv_usec * 1000
              ELSE cm.tv_sec * NANOS_PER_SEC + cm.tv_nsec
    IN  stamp.res = [ok |-> TRUE,
                     d |-> [secs |-> ns \div NANOS_PER_SEC,
                            nanos |-> ns % NANOS_PER_SEC]]

\* C14: after an add that returned Ok, the sockets registered with the
\* epoll instance are exactly the sockets of the endpoints the group holds,
\* one registration for each endpoint, each for readability.
C14_RegisteredAreHeld ==
  addRes = "ok" =>
    /\ DOMAIN interest = GroupFds
    /\ Cardinality(GroupFds) = Len(cans)
    /\ \A f \in DOMAIN interest : interest[f].events = EPOLLIN

\* the second add of a group has returned Ok
C14_Witness ==
  /\ addRes = "ok"
  /\ Len(cans) = 2
  /\ fd_epoll \in openFds

\* C15: whatever adds have failed, the endpoint list and the bookkeeping
\* array have the same length, every key registered with the kernel is the
\* address of an element of the list's current storage, and next dispatches
\* no endpoint that is not registered (its registration failed).
C15_ConsistentUnderFailure ==
  /\ Len(cans) = Len(events)
  /\ \A f \in DOMAIN interest :
       /\ ~interest[f].u64.dangling
       /\ interest[f].u64.idx \in 1 .. Len(cans)
  /\ \A i \in 1 .. Len(trace) :
       trace[i].op = "call" => trace[i].fd \in DOMAIN interest

\* C16: in a cycle whose wait reported k events, next has, after i rounds,
\* done i receives and i handler calls, in the order of the reported events,
\* each call directly after the receive for its event and before next
\* returns; when all k receives succeeded there are exactly k of each.  k
\* is never more than the number of endpoints added.
C16_DispatchCountAndOrder ==
  /\ num_events <= Len(cans)
  /\ pc = "dispatch" => (Len(trace) = 2 * idx /\ GoodPrefix(idx))
  /\ (Returned /\ waitRes = "events"
        /\ \A i \in 1 .. Len(trace) : trace[i].op # "recvfail")
     => /\ Len(trace) = 2 * num_events
        /\ GoodPrefix(num_events)
        /\ \A i \in 1 .. num_events : evsrc[i] \in GroupFds

\* a cycle with two reported events, both received and dispatched
C16_Witness ==
  /\ Returned
  /\ num_events = 2
  /\ Len(trace) = 4
  /\ trace[4].op = "call"
  /\ evsrc[1] # evsrc[2]

\* C17: timestamp returns the stamp of the first SO_TIMESTAMP or
\* SO_TIMESTAMPING message that no message of another level precedes, and
\* Unsupported exactly when the chain is empty or has no such message before
\* its first message of another level or its end; the scan comes to an end
\* on every chain.
C17_ScanSelectsFirst ==
  LET c == msg.ctl
      S == Selected(c)
  IN  /\ ~stamp.called => ENABLED TsCall
      /\ stamp.called =>
           /\ S # {} => stamp.res = [ok |-> TRUE, d |-> StampOf(c[Min(S)])]
           /\ stamp.res = Unsupported <=>
                (c = << >> \/ \A i \in 1 .. Len(c) : ~Qualifies(c, i))

\* the scan has passed a socket-level message without a stamp and returned
\* the stamp after it, with another stamp behind that one
C17_Witness ==
  /\ stamp.called
  /\ stamp.res.ok
  /\ msg.ctl = << OtherMsg(SOL_SOCKET, SO_RXQ_OVFL), TimespecMsg(1, 1),
                  TimevalMsg(0, 1) >>

\* C18: an add that follows an add which returned an error, takes an open
\* socket, and meets no failure of a valid request in the kernel, returns Ok
\* and leaves every endpoint of the group registered.
C18_AddAfterFailedAdd ==
  (/\ addRes # "none"
   /\ addHist.prevFailed
   /\ ~addHist.injected
   /\ fd_epoll \in openFds)
  => (addRes = "ok" /\ DOMAIN interest = GroupFds)

====
